---- MODULE Spec2Model ----
(***************************************************************************)
(* PomodoroEngine (src/PomodoroGUIApp/PomodoroCore.py): the countdown and  *)
(* session-rotation engine, its change listener, and the front-end calls   *)
(* that drive it.  pc is the caller's position: "new" after the engine is  *)
(* constructed and before the window assigns on_change, "idle" between     *)
(* calls, "loop" inside tick's while loop with another iteration due.      *)
(*                                                                         *)
(* _acc and dt are Python floats (IEEE-754 binary64).  A float is held     *)
(* here as the exact integer number of units of 2^-56 second it denotes,   *)
(* split in two limbs <<h, l>> with value (h * Limb + l) * 2^-56; every    *)
(* float the model handles is a multiple of 2^-56 below 8.0, and FAdd and  *)
(* FSub round to 53 significant bits, ties to even, as binary64 does.      *)
(*                                                                         *)
(* rotation_index, session_secs and delivered are history variables: the   *)
(* calls of _advance_session since the last reset, the seconds the clock   *)
(* has consumed in the current session, and the snapshot on_change was     *)
(* last called with.  The module also holds format_hhmmss of the same file *)
(* and the real-time terminal variant (src/pomodoro.py): tpc is the        *)
(* position in pomodoro_real_time ("off" before the call, "ask" at the     *)
(* prompt, "session" in a countdown, "done" after it returned), line the   *)
(* line last typed, cmd what ask_command made of it, ran the countdown     *)
(* session_real_time started; secs and text are format_hhmmss's argument  *)
(* and result.                                                             *)
(***************************************************************************)
EXTENDS Integers, Sequences, FiniteSets, TLC

VARIABLES work_secs, short_break_secs, long_break_secs, long_break_every,
          on_change, mode, remaining, paused, work_sessions_done, acc,
          pc, op, pre, emits, elapsed, ticked, left, skipped,
          rotation_index, session_secs, delivered,
          tpc, rotation, line, cmd, ran, secs, text

config == <<work_secs, short_break_secs, long_break_secs, long_break_every>>
engine == <<mode, remaining, paused, work_sessions_done, acc>>
vars == <<work_secs, short_break_secs, long_break_secs, long_break_every,
          on_change, mode, remaining, paused, work_sessions_done, acc,
          pc, op, pre, emits, elapsed, ticked, left, skipped,
          rotation_index, session_secs, delivered,
          tpc, rotation, line, cmd, ran, secs, text>>
\* the terminal front-end (src/pomodoro.py) and the formatter's argument and result
terminal == <<tpc, rotation, line, cmd, ran>>
format == <<secs, text>>

(***************************************************************************)
(* Bounds of the model.                                                    *)
(***************************************************************************)
MaxWork == 2
MaxShort == 1
MaxLong == 2
MaxEvery == 2
MaxDone == 3
MaxElapsed == 2
\* rotations of the terminal variant, and characters typed on one line of input
MaxRotation == 12
MaxLineLen == 2
\* arguments of format_hhmmss: -MaxNegative..MaxFormatSecs
MaxNegative == 3
MaxFormatSecs == 7300

(***************************************************************************)
(* binary64 arithmetic on the two-limb representation.                     *)
(***************************************************************************)
Limb == 2^28

Norm(h, l) == IF l >= Limb THEN <<h + 1, l - Limb>>
              ELSE IF l < 0 THEN <<h - 1, l + Limb>>
              ELSE <<h, l>>

\* number of low bits a value with high limb h loses to fit 53 bits
Shift(h) == CHOOSE k \in 0..6 : h < 2^(25 + k) /\ (k = 0 \/ h >= 2^(24 + k))

Round(x) ==
    LET q == 2^Shift(x[1])
        r == x[2] % q
        base == x[2] - r
        up == (2 * r > q) \/ (2 * r = q /\ (base \div q) % 2 = 1)
    IN  IF up THEN Norm(x[1], base + q) ELSE <<x[1], base>>

XAdd(a, b) == Norm(a[1] + b[1], a[2] + b[2])
FAdd(a, b) == Round(XAdd(a, b))
FSub(a, b) == Round(Norm(a[1] - b[1], a[2] - b[2]))
FGe(a, b) == a[1] > b[1] \/ (a[1] = b[1] /\ a[2] >= b[2])
Floor(a) == a[1] \div Limb

FZero == <<0, 0>>
FOne == <<Limb, 0>>
FTwo == <<2 * Limb, 0>>
FFourTenths == <<107374182, 107374184>>
FSixTenths == <<161061273, 161061272>>

\* running time after which the model stops advancing the clock
ElapsedCap == <<MaxElapsed * Limb, 0>>

\* the deltas the front-end passes to tick
Deltas == {FZero, FFourTenths, FSixTenths, FOne, FTwo}

(***************************************************************************)
(* The engine.                                                             *)
(***************************************************************************)
Mode == {"WORK", "SHORT_BREAK", "LONG_BREAK"}

Snap(m, r, p, d, a) ==
    [mode |-> m, remaining |-> r, paused |-> p, work_sessions_done |-> d, acc |-> a]

Current == Snap(mode, remaining, paused, work_sessions_done, acc)

Call(name, dt) == [name |-> name, dt |-> dt]

\* snapshot(): the Snapshot dataclass
Shot(m, r, p, d) == [mode |-> m, remaining |-> r, paused |-> p, work_sessions_done |-> d]

\* no snapshot: on_change has not been called yet
NoShot == [mode |-> "none", remaining |-> 0, paused |-> TRUE, work_sessions_done |-> 0]

\* _emit: the snapshot the listener holds after on_change(snapshot()) of state s
deliver(s) == IF on_change # "None" THEN s ELSE delivered

\* _emit: one listener invocation when a callable is registered
emit(n) == IF on_change # "None" THEN n + 1 ELSE n

\* advance_session with the long-break test made on the count before its increment
advance_session_stale_count(m, d) ==
    IF m = "WORK"
    THEN IF d % long_break_every = 0
         THEN [mode |-> "LONG_BREAK", remaining |-> long_break_secs, work_sessions_done |-> d + 1]
         ELSE [mode |-> "SHORT_BREAK", remaining |-> short_break_secs, work_sessions_done |-> d + 1]
    ELSE [mode |-> "WORK", remaining |-> work_secs, work_sessions_done |-> d]

\* _advance_session that leaves a break without setting the mode
advance_session_keeps_break(m, d) ==
    IF m = "WORK"
    THEN IF (d + 1) % long_break_every = 0
         THEN [mode |-> "LONG_BREAK", remaining |-> long_break_secs, work_sessions_done |-> d + 1]
         ELSE [mode |-> "SHORT_BREAK", remaining |-> short_break_secs, work_sessions_done |-> d + 1]
    ELSE [mode |-> m, remaining |-> work_secs, work_sessions_done |-> d]

\* _advance_session that counts a finished break as a work session
advance_session_counts_breaks(m, d) ==
    IF m = "WORK"
    THEN IF (d + 1) % long_break_every = 0
         THEN [mode |-> "LONG_BREAK", remaining |-> long_break_secs, work_sessions_done |-> d + 1]
         ELSE [mode |-> "SHORT_BREAK", remaining |-> short_break_secs, work_sessions_done |-> d + 1]
    ELSE [mode |-> "WORK", remaining |-> work_secs, work_sessions_done |-> d + 1]

\* _advance_session on (mode, work_sessions_done)
advance_session(m, d) ==
    IF m = "WORK"
    THEN IF (d + 1) % long_break_every = 0
         THEN [mode |-> "LONG_BREAK", remaining |-> long_break_secs, work_sessions_done |-> d + 1]
         ELSE [mode |-> "SHORT_BREAK", remaining |-> short_break_secs, work_sessions_done |-> d + 1]
    ELSE [mode |-> "WORK", remaining |-> work_secs, work_sessions_done |-> d]

\* tick_second that decrements at zero too
tick_second_past_zero(m, r, d) ==
    IF r >= 0
    THEN [mode |-> m, remaining |-> r - 1, work_sessions_done |-> d]
    ELSE advance_session(m, d)

\* tick_second that rotates with one second still remaining
tick_second_rotates_early(m, r, d) ==
    IF r > 1
    THEN [mode |-> m, remaining |-> r - 1, work_sessions_done |-> d]
    ELSE advance_session(m, d)

\* the body of tick's while loop on (mode, remaining, work_sessions_done)
tick_second(m, r, d) ==
    IF r > 0
    THEN [mode |-> m, remaining |-> r - 1, work_sessions_done |-> d]
    ELSE advance_session(m, d)

\* sessions left through WORK -> break since the last reset
LeftAfter(m, m2) == IF m = "WORK" /\ m2 # "WORK" THEN left + 1 ELSE left

Constructed(w, s, l, e) ==
    /\ work_secs = w
    /\ short_break_secs = s
    /\ long_break_secs = l
    /\ long_break_every = e
    /\ on_change = "None"
    /\ mode = "WORK"
    /\ remaining = w
    /\ paused = TRUE
    /\ work_sessions_done = 0
    /\ acc = FZero
    /\ pc = "new"
    /\ op = Call("init", FZero)
    /\ pre = Snap("WORK", w, TRUE, 0, FZero)
    /\ emits = 0
    /\ elapsed = FZero
    /\ ticked = 0
    /\ left = 0
    /\ skipped = FALSE
    /\ rotation_index = 0
    /\ session_secs = 0
    /\ delivered = NoShot

\* the terminal front-end not started, the formatter not called
TerminalIdle == tpc = "off" /\ rotation = 0 /\ line = <<>> /\ cmd = "none" /\ ran = "none"
FormatIdle == secs = 0 /\ text = <<>>

Init ==
    /\ \E w \in 1..MaxWork, s \in 1..MaxShort, e \in 1..MaxEvery :
          \E l \in (s + 1)..MaxLong : Constructed(w, s, l, e)
    /\ TerminalIdle
    /\ FormatIdle

\* PomodoroWindow.__init__: engine.on_change = self.render, right after construction
SetListener ==
    /\ pc = "new"
    /\ on_change' = "render"
    /\ pc' = "idle"
    /\ op' = Call("set_listener", FZero)
    /\ pre' = Current
    /\ emits' = 0
    /\ UNCHANGED <<config, engine, elapsed, ticked, left, skipped>>
    /\ UNCHANGED <<rotation_index, session_secs, delivered, terminal, format>>

\* reset that keeps the count of finished work sessions
ResetKeepsCount ==
    /\ pc = "idle"
    /\ mode' = "WORK"
    /\ remaining' = work_secs
    /\ paused' = TRUE
    /\ acc' = FZero
    /\ emits' = emit(0)
    /\ op' = Call("reset", FZero)
    /\ pre' = Current
    /\ elapsed' = FZero
    /\ ticked' = 0
    /\ left' = 0
    /\ skipped' = FALSE
    /\ rotation_index' = 0
    /\ session_secs' = 0
    /\ delivered' = deliver(Shot("WORK", work_secs, TRUE, work_sessions_done))
    /\ UNCHANGED <<terminal, format>>
    /\ UNCHANGED <<config, on_change, pc, work_sessions_done>>

Reset ==
    /\ pc = "idle"
    /\ mode' = "WORK"
    /\ remaining' = work_secs
    /\ paused' = TRUE
    /\ work_sessions_done' = 0
    /\ acc' = FZero
    /\ emits' = emit(0)
    /\ op' = Call("reset", FZero)
    /\ pre' = Current
    /\ elapsed' = FZero
    /\ ticked' = 0
    /\ left' = 0
    /\ skipped' = FALSE
    /\ rotation_index' = 0
    /\ session_secs' = 0
    /\ delivered' = deliver(Shot("WORK", work_secs, TRUE, 0))
    /\ UNCHANGED <<terminal, format>>
    /\ UNCHANGED <<config, on_change, pc>>

Start ==
    /\ pc = "idle"
    /\ paused' = FALSE
    /\ emits' = emit(0)
    /\ op' = Call("start", FZero)
    /\ pre' = Current
    /\ delivered' = deliver(Shot(mode, remaining, FALSE, work_sessions_done))
    /\ UNCHANGED <<rotation_index, session_secs, terminal, format>>
    /\ UNCHANGED <<config, on_change, mode, remaining, work_sessions_done, acc,
                   pc, elapsed, ticked, left, skipped>>

\* toggle_pause that also empties the accumulator
TogglePauseClearsAcc ==
    /\ pc = "idle"
    /\ paused' = ~paused
    /\ acc' = FZero
    /\ emits' = emit(0)
    /\ op' = Call("toggle_pause", FZero)
    /\ pre' = Current
    /\ delivered' = deliver(Shot(mode, remaining, ~paused, work_sessions_done))
    /\ UNCHANGED <<rotation_index, session_secs, terminal, format>>
    /\ UNCHANGED <<config, on_change, mode, remaining, work_sessions_done,
                   pc, elapsed, ticked, left, skipped>>

TogglePause ==
    /\ pc = "idle"
    /\ paused' = ~paused
    /\ emits' = emit(0)
    /\ op' = Call("toggle_pause", FZero)
    /\ pre' = Current
    /\ delivered' = deliver(Shot(mode, remaining, ~paused, work_sessions_done))
    /\ UNCHANGED <<rotation_index, session_secs, terminal, format>>
    /\ UNCHANGED <<config, on_change, mode, remaining, work_sessions_done, acc,
                   pc, elapsed, ticked, left, skipped>>

\* skip() that notifies the listener before it advances the session
SkipEmitsFirst ==
    /\ pc = "idle"
    /\ work_sessions_done < MaxDone
    /\ LET n == advance_session(mode, work_sessions_done)
       IN  /\ mode' = n.mode
           /\ remaining' = n.remaining
           /\ work_sessions_done' = n.work_sessions_done
           /\ left' = LeftAfter(mode, n.mode)
    /\ delivered' = deliver(Shot(mode, remaining, paused, work_sessions_done))
    /\ rotation_index' = rotation_index + 1
    /\ session_secs' = 0
    /\ UNCHANGED <<terminal, format>>
    /\ emits' = emit(0)
    /\ op' = Call("skip", FZero)
    /\ pre' = Current
    /\ skipped' = TRUE
    /\ UNCHANGED <<config, on_change, paused, acc, pc, elapsed, ticked>>

Skip ==
    /\ pc = "idle"
    /\ work_sessions_done < MaxDone
    /\ LET n == advance_session(mode, work_sessions_done)
       IN  /\ mode' = n.mode
           /\ remaining' = n.remaining
           /\ work_sessions_done' = n.work_sessions_done
           /\ left' = LeftAfter(mode, n.mode)
           /\ delivered' = deliver(Shot(n.mode, n.remaining, paused, n.work_sessions_done))
    /\ rotation_index' = rotation_index + 1
    /\ session_secs' = 0
    /\ UNCHANGED <<terminal, format>>
    /\ emits' = emit(0)
    /\ op' = Call("skip", FZero)
    /\ pre' = Current
    /\ skipped' = TRUE
    /\ UNCHANGED <<config, on_change, paused, acc, pc, elapsed, ticked>>

\* tick without the early return on paused
TickIgnoresPause(dt) ==
    /\ pc = "idle"
    /\ work_sessions_done < MaxDone
    /\ paused \/ FGe(ElapsedCap, elapsed)
    /\ op' = Call("tick", dt)
    /\ pre' = Current
    /\ emits' = 0
    /\ UNCHANGED <<rotation_index, session_secs, delivered, terminal, format>>
    /\ acc' = FAdd(acc, dt)
    /\ pc' = IF FGe(acc', FOne) THEN "loop" ELSE "idle"
    /\ elapsed' = IF paused THEN elapsed ELSE XAdd(elapsed, dt)
    /\ UNCHANGED <<config, on_change, mode, remaining, paused, work_sessions_done,
                   ticked, left, skipped>>

\* tick that notifies once per call, as reset, start, toggle_pause and skip do
TickThenEmit(dt) ==
    /\ pc = "idle"
    /\ work_sessions_done < MaxDone
    /\ paused \/ FGe(ElapsedCap, elapsed)
    /\ op' = Call("tick", dt)
    /\ pre' = Current
    /\ IF paused
       THEN UNCHANGED <<acc, pc, elapsed, delivered>> /\ emits' = 0
       ELSE /\ acc' = FAdd(acc, dt)
            /\ pc' = IF FGe(acc', FOne) THEN "loop" ELSE "idle"
            /\ elapsed' = XAdd(elapsed, dt)
            /\ emits' = emit(0)
            /\ delivered' = deliver(Shot(mode, remaining, paused, work_sessions_done))
    /\ UNCHANGED <<rotation_index, session_secs, terminal, format>>
    /\ UNCHANGED <<config, on_change, mode, remaining, paused, work_sessions_done,
                   ticked, left, skipped>>

\* tick(dt) up to the first test of the while condition
Tick(dt) ==
    /\ pc = "idle"
    /\ work_sessions_done < MaxDone
    /\ paused \/ FGe(ElapsedCap, elapsed)
    /\ op' = Call("tick", dt)
    /\ pre' = Current
    /\ emits' = 0
    /\ UNCHANGED <<rotation_index, session_secs, delivered, terminal, format>>
    /\ IF paused
       THEN UNCHANGED <<acc, pc, elapsed>>
       ELSE /\ acc' = FAdd(acc, dt)
            /\ pc' = IF FGe(acc', FOne) THEN "loop" ELSE "idle"
            /\ elapsed' = XAdd(elapsed, dt)
    /\ UNCHANGED <<config, on_change, mode, remaining, paused, work_sessions_done,
                   ticked, left, skipped>>

\* loop iteration that notifies of a decrement but not of a rotation
TickLoopSilentRotation ==
    /\ pc = "loop"
    /\ acc' = FSub(acc, FOne)
    /\ LET n == tick_second(mode, remaining, work_sessions_done)
       IN  /\ mode' = n.mode
           /\ remaining' = n.remaining
           /\ work_sessions_done' = n.work_sessions_done
           /\ left' = LeftAfter(mode, n.mode)
           /\ delivered' = IF remaining > 0
                           THEN deliver(Shot(n.mode, n.remaining, paused, n.work_sessions_done))
                           ELSE delivered
    /\ rotation_index' = IF remaining > 0 THEN rotation_index ELSE rotation_index + 1
    /\ session_secs' = IF remaining > 0 THEN session_secs + 1 ELSE 0
    /\ UNCHANGED <<terminal, format>>
    /\ emits' = IF remaining > 0 THEN emit(emits) ELSE emits
    /\ ticked' = ticked + 1
    /\ pc' = IF FGe(acc', FOne) THEN "loop" ELSE "idle"
    /\ UNCHANGED <<config, on_change, paused, op, pre, elapsed, skipped>>

\* tick whose loop is an if: one second consumed per call at most
TickLoopRunsOnce ==
    /\ pc = "loop"
    /\ acc' = FSub(acc, FOne)
    /\ LET n == tick_second(mode, remaining, work_sessions_done)
       IN  /\ mode' = n.mode
           /\ remaining' = n.remaining
           /\ work_sessions_done' = n.work_sessions_done
           /\ left' = LeftAfter(mode, n.mode)
           /\ delivered' = deliver(Shot(n.mode, n.remaining, paused, n.work_sessions_done))
    /\ rotation_index' = IF remaining > 0 THEN rotation_index ELSE rotation_index + 1
    /\ session_secs' = IF remaining > 0 THEN session_secs + 1 ELSE 0
    /\ UNCHANGED <<terminal, format>>
    /\ emits' = emit(emits)
    /\ ticked' = ticked + 1
    /\ pc' = "idle"
    /\ UNCHANGED <<config, on_change, paused, op, pre, elapsed, skipped>>

\* one iteration of tick's while loop, and the test that follows it
TickLoop ==
    /\ pc = "loop"
    /\ acc' = FSub(acc, FOne)
    /\ LET n == tick_second(mode, remaining, work_sessions_done)
       IN  /\ mode' = n.mode
           /\ remaining' = n.remaining
           /\ work_sessions_done' = n.work_sessions_done
           /\ left' = LeftAfter(mode, n.mode)
           /\ delivered' = deliver(Shot(n.mode, n.remaining, paused, n.work_sessions_done))
    /\ rotation_index' = IF remaining > 0 THEN rotation_index ELSE rotation_index + 1
    /\ session_secs' = IF remaining > 0 THEN session_secs + 1 ELSE 0
    /\ UNCHANGED <<terminal, format>>
    /\ emits' = emit(emits)
    /\ ticked' = ticked + 1
    /\ pc' = IF FGe(acc', FOne) THEN "loop" ELSE "idle"
    /\ UNCHANGED <<config, on_change, paused, op, pre, elapsed, skipped>>

Next ==
    \/ SetListener
    \/ Reset
    \/ Start
    \/ TogglePause
    \/ Skip
    \/ \E dt \in Deltas : Tick(dt)
    \/ TickLoop

Spec == Init /\ [][Next]_vars

\* __init__ called with arguments that are not all positive as well
InitAnyArgs ==
    /\ \E w \in {-1, 0} \cup (1..MaxWork), s \in 0..MaxShort, e \in 1..MaxEvery :
          \E l \in (s + 1)..MaxLong : Constructed(w, s, l, e)
    /\ TerminalIdle
    /\ FormatIdle

SpecAnyArgs == InitAnyArgs /\ [][Next]_vars

\* the deltas of a timer that keeps firing: every one is positive
TimerDeltas == {FFourTenths, FTwo}

\* tick(dt) that assigns dt to the accumulator instead of adding it
TickLiveOverwritesAcc(dt) ==
    /\ pc = "idle"
    /\ ~paused
    /\ work_sessions_done < MaxDone
    /\ op' = Call("tick", dt)
    /\ pre' = Current
    /\ emits' = 0
    /\ acc' = dt
    /\ pc' = IF FGe(acc', FOne) THEN "loop" ELSE "idle"
    /\ UNCHANGED <<rotation_index, session_secs, delivered, terminal, format>>
    /\ UNCHANGED <<config, on_change, mode, remaining, paused, work_sessions_done,
                   elapsed, ticked, left, skipped>>

\* tick(dt) of a running engine up to the first test of the while condition,
\* the clock read by on_tick left untracked
TickLive(dt) ==
    /\ pc = "idle"
    /\ ~paused
    /\ work_sessions_done < MaxDone
    /\ op' = Call("tick", dt)
    /\ pre' = Current
    /\ emits' = 0
    /\ acc' = FAdd(acc, dt)
    /\ pc' = IF FGe(acc', FOne) THEN "loop" ELSE "idle"
    /\ UNCHANGED <<rotation_index, session_secs, delivered, terminal, format>>
    /\ UNCHANGED <<config, on_change, mode, remaining, paused, work_sessions_done,
                   elapsed, ticked, left, skipped>>

\* the window started and left alone: the timer keeps calling on_tick
NextLive ==
    \/ SetListener
    \/ Start
    \/ \E dt \in TimerDeltas : TickLive(dt)
    \/ TickLoop

\* QTimer fires on_tick again and again, and tick's while loop runs to its end
SpecLive ==
    /\ Init
    /\ [][NextLive]_vars
    /\ WF_vars(\E dt \in TimerDeltas : TickLive(dt))
    /\ WF_vars(TickLoop)

\* ---- the terminal variant (src/pomodoro.py) ----

\* characters a line of input is typed from
Keys == {" ", "p", "q", "s", "Q", "x"}
Lines == UNION {[1..n -> Keys] : n \in 0..MaxLineLen}

\* str.lower on one character
lower_char(c) == IF c = "Q" THEN "q" ELSE c

\* str.lower
lower(s) == [i \in 1..Len(s) |-> lower_char(s[i])]

\* str.strip: whitespace removed from both ends
RECURSIVE lstrip(_)
lstrip(s) == IF s # <<>> /\ Head(s) = " " THEN lstrip(Tail(s)) ELSE s
RECURSIVE rstrip(_)
rstrip(s) == IF s # <<>> /\ s[Len(s)] = " " THEN rstrip(SubSeq(s, 1, Len(s) - 1)) ELSE s
strip(s) == rstrip(lstrip(s))

\* the members of Command
Command == {"CONTINUE", "PAUSE", "QUIT", "SKIP"}

\* one pass of ask_command's loop on a typed line: the Command returned, or
\* "reprompt" when the loop prints "Please enter a known command" and asks again
ask_command(typed) ==
    LET c == lower(strip(typed))
    IN  IF c = <<>> THEN "CONTINUE"
        ELSE IF c = <<"q">> THEN "QUIT"
        ELSE IF c = <<"s">> THEN "SKIP"
        ELSE "reprompt"

\* session_real_time: the countdown it starts for a rotation
session_real_time(r) ==
    IF r % 2 = 0 THEN "WORK"
    ELSE IF r = 5 THEN "LONG_BREAK"
    ELSE "SHORT_BREAK"

\* which_rotation: the session it names for a rotation
which_rotation(r) ==
    IF r % 2 = 0 THEN "WORK"
    ELSE IF r % 6 = 5 THEN "LONG_BREAK"
    ELSE "SHORT_BREAK"

\* pomodoro_real_time is called: rotation = 0, the first prompt follows
StartTerminal ==
    /\ tpc = "off"
    /\ tpc' = "ask"
    /\ rotation' = 0
    /\ UNCHANGED <<line, cmd, ran, format, config, engine, on_change, pc, op, pre, emits,
                   elapsed, ticked, left, skipped, rotation_index, session_secs, delivered>>

\* one line typed at the prompt, and the match on the command in pomodoro_real_time
AskCommand(typed) ==
    /\ tpc = "ask"
    /\ line' = typed
    /\ cmd' = ask_command(typed)
    /\ cmd' = "SKIP" => rotation < MaxRotation
    /\ tpc' = CASE cmd' = "QUIT" -> "done"
                [] cmd' = "CONTINUE" -> "session"
                [] OTHER -> "ask"
    /\ rotation' = IF cmd' = "SKIP" THEN rotation + 1 ELSE rotation
    /\ ran' = IF cmd' = "CONTINUE" THEN session_real_time(rotation) ELSE ran
    /\ UNCHANGED <<format, config, engine, on_change, pc, op, pre, emits,
                   elapsed, ticked, left, skipped, rotation_index, session_secs, delivered>>

\* countdown_with_controls returns "quit", "skip" or None to pomodoro_real_time
SessionReturns(new_instr) ==
    /\ tpc = "session"
    /\ new_instr # "quit" => rotation < MaxRotation
    /\ tpc' = IF new_instr = "quit" THEN "done" ELSE "ask"
    /\ rotation' = IF new_instr = "quit" THEN rotation ELSE rotation + 1
    /\ UNCHANGED <<line, cmd, ran, format, config, engine, on_change, pc, op, pre, emits,
                   elapsed, ticked, left, skipped, rotation_index, session_secs, delivered>>

NextTerminal ==
    \/ StartTerminal
    \/ \E typed \in Lines : AskCommand(typed)
    \/ \E new_instr \in {"quit", "skip", "None"} : SessionReturns(new_instr)

SpecTerminal == Init /\ [][NextTerminal]_vars

\* ---- format_hhmmss ----

DigitChars == <<"0", "1", "2", "3", "4", "5", "6", "7", "8", "9">>

\* the decimal digits of a natural number, as str.format writes them
RECURSIVE decimal(_)
decimal(n) ==
    IF n < 10 THEN <<DigitChars[n + 1]>>
    ELSE Append(decimal(n \div 10), DigitChars[(n % 10) + 1])

\* the format spec 02: zero-filled to a width of at least two
pad2(n) == IF n < 10 THEN <<"0">> \o decimal(n) ELSE decimal(n)

\* format_hhmmss that does not wrap the minutes at the hour
format_hhmmss_minutes_unwrapped(x) ==
    LET s0 == IF x > 0 THEN x ELSE 0
        h == s0 \div 3600
        m == s0 \div 60
        s == s0 % 60
    IN  pad2(h) \o <<":">> \o pad2(m) \o <<":">> \o pad2(s)

\* format_hhmmss on an integer argument
format_hhmmss(x) ==
    LET s0 == IF x > 0 THEN x ELSE 0
        h == s0 \div 3600
        m == (s0 % 3600) \div 60
        s == s0 % 60
    IN  pad2(h) \o <<":">> \o pad2(m) \o <<":">> \o pad2(s)

\* arguments tried: around zero, across the first hours, and where the hours
\* reach a day and three digits
FormatInputs == ((0 - MaxNegative)..MaxFormatSecs) \cup {86399, 86400, 359999, 360000}

\* an argument is chosen, format_hhmmss not yet called on it
InitFormat ==
    /\ \E w \in 1..MaxWork, s \in 1..MaxShort, e \in 1..MaxEvery :
          \E l \in (s + 1)..MaxLong : Constructed(w, s, l, e)
    /\ TerminalIdle
    /\ secs \in FormatInputs
    /\ text = <<>>

\* the call format_hhmmss(secs)
FormatCall ==
    /\ text = <<>>
    /\ text' = format_hhmmss(secs)
    /\ UNCHANGED <<secs, terminal, config, engine, on_change, pc, op, pre, emits,
                   elapsed, ticked, left, skipped, rotation_index, session_secs, delivered>>

SpecFormat == InitFormat /\ [][FormatCall]_vars

TypeOK ==
    /\ mode \in Mode
    /\ remaining \in Int
    /\ paused \in BOOLEAN
    /\ work_sessions_done \in Nat
    /\ pc \in {"new", "idle", "loop"}
    /\ acc[1] >= 0 /\ acc[2] \in 0..(Limb - 1)
    /\ rotation_index \in Nat
    /\ session_secs \in Nat
    /\ delivered = NoShot \/ delivered.mode \in Mode
    /\ tpc \in {"off", "ask", "session", "done"}
    /\ rotation \in 0..MaxRotation
    /\ line \in Lines
    /\ cmd \in (Command \ {"PAUSE"}) \cup {"none", "reprompt"}
    /\ ran \in Mode \cup {"none"}
    /\ secs \in FormatInputs
    /\ text = <<>> \/ Len(text) >= 8

(***************************************************************************)
(* Claims.                                                                 *)
(***************************************************************************)
Positive ==
    work_secs > 0 /\ short_break_secs > 0 /\ long_break_secs > 0 /\ long_break_every > 0

EngineCalls == {"reset", "start", "toggle_pause", "skip", "tick"}

\* C1: whenever a skip or an expired second leaves WORK, the break entered is
\* LONG_BREAK with remaining = long_break_secs if the number of WORK sessions
\* left since the last reset is a multiple of long_break_every, and
\* SHORT_BREAK with remaining = short_break_secs otherwise.
C1_RotationCadence ==
    [][(mode = "WORK" /\ mode' # "WORK") =>
         IF left' % long_break_every = 0
         THEN mode' = "LONG_BREAK" /\ remaining' = long_break_secs
         ELSE mode' = "SHORT_BREAK" /\ remaining' = short_break_secs]_vars

\* the second WORK session expires on the clock into a long break, every = 2
C1_Witness ==
    /\ op.name = "tick" /\ pc = "idle"
    /\ pre.mode = "WORK" /\ mode = "LONG_BREAK"
    /\ left = 2 /\ long_break_every = 2
    /\ remaining = long_break_secs

\* C2: remaining is never negative, whatever the sequence of calls, for an
\* engine built from positive arguments.
C2_RemainingNonNegative == remaining >= 0

\* a running tick found remaining = 0, consumed a second and rotated
C2_Witness ==
    /\ op.name = "tick" /\ ~pre.paused /\ pre.remaining = 0
    /\ mode # pre.mode /\ pc = "idle"

\* C3: a tick on a paused engine changes no field of the engine (mode,
\* remaining, paused, work_sessions_done, _acc) and invokes no listener.
C3_PausedTickNoop ==
    (op.name = "tick" /\ pre.paused) => (Current = pre /\ emits = 0 /\ pc = "idle")

\* tick(2.0) on an engine paused in mid-session with a fraction accumulated
C3_Witness ==
    /\ op = Call("tick", FTwo) /\ pre.paused
    /\ pre.acc # FZero /\ pre.remaining > 0 /\ pre.mode # "WORK"

\* C4: reset leaves mode = WORK, remaining = work_secs, paused, no finished
\* work session and an empty accumulator, whatever the state before.
C4_ResetPost ==
    op.name = "reset" =>
        /\ mode = "WORK"
        /\ remaining = work_secs
        /\ paused
        /\ work_sessions_done = 0
        /\ acc = FZero

\* reset of a running engine in a break, with sessions done and a fraction accumulated
C4_Witness ==
    /\ op.name = "reset"
    /\ pre.mode # "WORK" /\ pre.work_sessions_done > 0
    /\ ~pre.paused /\ pre.acc # FZero /\ pre.remaining # work_secs

\* C5: while the first WORK session lasts, remaining has dropped from
\* work_secs by the whole seconds of the exact sum of the deltas passed to
\* tick while running since reset.
C5_AccumulatesFloor ==
    (pc = "idle" /\ left = 0 /\ Floor(elapsed) <= work_secs) =>
        remaining = work_secs - Floor(elapsed)

\* C6: no engine call is ever served by an engine built from an argument
\* that is not positive (its construction fails).
C6_ConstructionRejects == op.name \in EngineCalls => Positive

\* the fields a snapshot shows
Visible(s) == <<s.mode, s.remaining, s.paused, s.work_sessions_done>>

\* C7: tick(1.0) on a running engine with remaining = 0 ends in the mode,
\* remaining and work_sessions_done that skip() produces from the same state.
C7_SkipAtZeroEquivalence ==
    (pc = "idle" /\ op = Call("tick", FOne) /\ ~pre.paused /\ pre.remaining = 0) =>
        LET n == advance_session(pre.mode, pre.work_sessions_done)
        IN  /\ mode = n.mode
            /\ remaining = n.remaining
            /\ work_sessions_done = n.work_sessions_done

\* C8: tick(0.0) changes no field of the engine and invokes no listener,
\* paused or running.
C8_ZeroTickNoop ==
    op = Call("tick", FZero) => (Current = pre /\ emits = 0 /\ pc = "idle")

\* tick(0.0) on a running engine at remaining = 0 with a fraction accumulated
C8_Witness ==
    /\ op = Call("tick", FZero) /\ ~pre.paused
    /\ pre.acc # FZero /\ pre.remaining = 0

\* the engine after n consumed seconds, from mode m, remaining r, count d
RECURSIVE RunSeconds(_, _, _, _)
RunSeconds(m, r, d, n) ==
    IF n = 0
    THEN [mode |-> m, remaining |-> r, work_sessions_done |-> d]
    ELSE LET t == tick_second(m, r, d)
         IN  RunSeconds(t.mode, t.remaining, t.work_sessions_done, n - 1)

\* C9: with ticks only since reset, the number of seconds consumed (one
\* snapshot each) and the resulting mode, remaining and work_sessions_done
\* depend on the total of the deltas alone: they are those of the whole
\* seconds of the exact total.
C9_SplitIndependent ==
    (pc = "idle" /\ ~skipped) =>
        /\ ticked = Floor(elapsed)
        /\ [mode |-> mode, remaining |-> remaining, work_sessions_done |-> work_sessions_done]
             = RunSeconds("WORK", work_secs, 0, Floor(elapsed))

\* C10 as stated: a call that changes what a snapshot shows invokes the
\* listener exactly once.
C10_OncePerMutatingCall ==
    (pc = "idle" /\ op.name \in EngineCalls /\ Visible(Current) # Visible(pre)) =>
        emits = 1

\* C10 amended: reset, start, toggle_pause and skip invoke the registered
\* listener exactly once per call; tick invokes it once per whole second it
\* consumes, which is the whole part of _acc + dt on a running engine and
\* none on a paused one.
C10_EmitsPerCall ==
    pc = "idle" =>
        /\ op.name \in {"reset", "start", "toggle_pause", "skip"} => emits = 1
        /\ op.name = "tick" =>
             emits = IF pre.paused THEN 0 ELSE Floor(FAdd(pre.acc, op.dt))

\* tick(2.0) consumed two seconds, one of them a rotation, and notified twice
C10_Witness ==
    /\ pc = "idle" /\ op = Call("tick", FTwo)
    /\ emits = 2 /\ mode # pre.mode

\* C11: counting the session advances since the last reset in rotation_index
\* (0 after reset, one more on every skip and every expiry), the count is even
\* exactly when the mode is WORK and odd exactly when it is one of the breaks.
C11_KindByParity ==
    /\ (rotation_index % 2 = 0) <=> (mode = "WORK")
    /\ (rotation_index % 2 = 1) <=> (mode \in {"SHORT_BREAK", "LONG_BREAK"})

\* a long break reached on the third advance, by skips and by the clock
C11_Witness ==
    /\ rotation_index = 3
    /\ mode = "LONG_BREAK"
    /\ skipped
    /\ ticked > 0

\* C12: some operation can always be called, and while the engine runs and the
\* timer keeps firing with positive deltas, every session ends and the next one
\* begins: a WORK session leads to a break, and a break leads to a fresh WORK
\* session, so WORK is entered again and again up to the bound on the count.
C12_NoTerminalState ==
    /\ [](ENABLED NextLive)
    /\ (~paused /\ work_sessions_done < MaxDone /\ mode = "WORK") ~> (mode # "WORK")
    /\ (~paused /\ work_sessions_done < MaxDone /\ mode # "WORK")
          ~> (mode = "WORK" /\ remaining = work_secs)

\* the clock alone has ended a work session, its break, and begun the next work session
C12_Witness ==
    /\ ~skipped
    /\ ~paused
    /\ rotation_index = 2
    /\ mode = "WORK"
    /\ work_sessions_done = 1

\* the command the prompt is said to give for a line, after strip and lower
PromptedCommand(typed) ==
    LET c == lower(strip(typed))
    IN  IF c = <<>> THEN "CONTINUE"
        ELSE IF c = <<"p">> THEN "PAUSE"
        ELSE IF c = <<"q">> THEN "QUIT"
        ELSE IF c = <<"s">> THEN "SKIP"
        ELSE "reprompt"

\* C13: the prompt maps an empty line to CONTINUE, p to PAUSE, q to QUIT and
\* s to SKIP, and asks again on any other line without returning a command.
C13_PromptMapping ==
    cmd # "none" => cmd = PromptedCommand(line)

\* C19: the session that session_real_time runs for the rotation reached by
\* pomodoro_real_time is the one which_rotation names for it: work when the
\* rotation is even, long break when rotation mod 6 is 5, short break otherwise.
C19_RunsNamedSession ==
    tpc = "session" =>
        /\ ran = which_rotation(rotation)
        /\ ran = (IF rotation % 2 = 0 THEN "WORK"
                  ELSE IF rotation % 6 = 5 THEN "LONG_BREAK"
                  ELSE "SHORT_BREAK")

\* the fields of a text between its colons
RECURSIVE Fields(_)
Fields(t) ==
    IF \A i \in 1..Len(t) : t[i] # ":" THEN <<t>>
    ELSE LET k == CHOOSE i \in 1..Len(t) : t[i] = ":" /\ \A j \in 1..(i - 1) : t[j] # ":"
         IN  <<SubSeq(t, 1, k - 1)>> \o Fields(SubSeq(t, k + 1, Len(t)))

\* the number a sequence of decimal digits reads as, -1 if it is not one
RECURSIVE Reads(_)
Reads(ds) ==
    IF ds = <<>> THEN -1
    ELSE LET last == ds[Len(ds)]
             v == IF \E d \in 1..10 : DigitChars[d] = last
                  THEN (CHOOSE d \in 1..10 : DigitChars[d] = last) - 1
                  ELSE -1
         IN  IF v = -1 THEN -1
             ELSE IF Len(ds) = 1 THEN v
             ELSE LET r == Reads(SubSeq(ds, 1, Len(ds) - 1))
                  IN  IF r = -1 THEN -1 ELSE 10 * r + v

\* C14: the text returned for an integer argument is HH:MM:SS, every field of at
\* least two digits and MM and SS of exactly two, with 0 <= MM <= 59,
\* 0 <= SS <= 59 and HH*3600 + MM*60 + SS = max(0, argument).
C14_FormatFields ==
    text # <<>> =>
        LET f == Fields(text)
        IN  /\ Len(f) = 3
            /\ Len(f[1]) >= 2 /\ Len(f[2]) = 2 /\ Len(f[3]) = 2
            /\ Reads(f[1]) >= 0
            /\ Reads(f[2]) \in 0..59
            /\ Reads(f[3]) \in 0..59
            /\ Reads(f[1]) * 3600 + Reads(f[2]) * 60 + Reads(f[3]) = (IF secs > 0 THEN secs ELSE 0)

\* one hour, one minute and one second formatted
C14_Witness == secs = 3661 /\ text = <<"0", "1", ":", "0", "1", ":", "0", "1">>

\* C15: an advance (skip or expiry) out of a break leads to WORK with
\* remaining = work_secs and the same work_sessions_done; an advance out of WORK,
\* a skip of an unfinished work session included, adds exactly one to
\* work_sessions_done; and nothing but an advance out of WORK or reset changes it.
C15_AdvanceCounts ==
    [][LET advance == rotation_index' = rotation_index + 1
       IN  /\ (advance /\ mode # "WORK") =>
                 /\ mode' = "WORK"
                 /\ remaining' = work_secs
                 /\ work_sessions_done' = work_sessions_done
           /\ (advance /\ mode = "WORK") => work_sessions_done' = work_sessions_done + 1
           /\ work_sessions_done' # work_sessions_done =>
                 (advance /\ mode = "WORK") \/ op'.name = "reset"]_vars

\* an unfinished work session skipped and counted, after a break had led back to WORK
C15_Witness ==
    /\ op.name = "skip"
    /\ pre.mode = "WORK"
    /\ pre.remaining > 0
    /\ pre.work_sessions_done = 1
    /\ work_sessions_done = 2
    /\ mode # "WORK"

\* the duration a session of mode m is entered with
Duration(m) ==
    CASE m = "WORK" -> work_secs
      [] m = "SHORT_BREAK" -> short_break_secs
      [] m = "LONG_BREAK" -> long_break_secs

\* C16: every whole second the running clock consumes either takes exactly one
\* from remaining, with mode and work_sessions_done unchanged, when remaining > 0,
\* or advances the session when remaining = 0; so the clock changes the mode only
\* from remaining = 0, and a session entered with duration N is left on the
\* (N+1)-th second consumed in it.
C16_SecondBySecond ==
    [][ticked' = ticked + 1 =>
          /\ ~paused
          /\ remaining > 0 =>
                /\ remaining' = remaining - 1
                /\ mode' = mode
                /\ work_sessions_done' = work_sessions_done
                /\ session_secs' = session_secs + 1
          /\ remaining = 0 =>
                /\ rotation_index' = rotation_index + 1
                /\ mode' # mode
                /\ remaining' = Duration(mode')
          /\ mode' # mode =>
                /\ remaining = 0
                /\ session_secs = Duration(mode)]_vars

\* a two-second work session left by the clock on the third second consumed
C16_Witness ==
    /\ op.name = "tick"
    /\ ~skipped
    /\ work_secs = 2
    /\ ticked = 3
    /\ rotation_index = 1
    /\ mode # "WORK"
    /\ session_secs = 0

\* C17: start() makes paused FALSE from either value and toggle_pause() negates
\* it; both leave mode, remaining, work_sessions_done and the accumulator as they
\* were, and a toggle_pause() right after a toggle_pause() restores the state the
\* first one was called in.
C17_OnlyPausedChanges ==
    [][LET frame == <<mode, remaining, work_sessions_done, acc>>
       IN  /\ (pc = "idle" /\ op'.name = "start") =>
                 /\ paused' = FALSE
                 /\ frame' = frame
           /\ (pc = "idle" /\ op'.name = "toggle_pause") =>
                 /\ paused' = ~paused
                 /\ frame' = frame
           /\ (pc = "idle" /\ op.name = "toggle_pause" /\ op'.name = "toggle_pause") =>
                 Current' = pre]_vars

\* a running engine paused in the middle of a session, a fraction of a second accumulated
C17_Witness ==
    /\ op.name = "toggle_pause"
    /\ paused
    /\ ~pre.paused
    /\ acc # FZero
    /\ remaining < Duration(mode)

\* C18: with a listener registered, once an operation that changed mode,
\* remaining, paused or work_sessions_done has returned, the snapshot the listener
\* was last called with is the engine's snapshot().
C18_LastDeliveredIsCurrent ==
    (/\ on_change # "None"
     /\ pc = "idle"
     /\ op.name \in EngineCalls
     /\ Visible(Current) # Visible(pre))
        => delivered = Shot(mode, remaining, paused, work_sessions_done)

\* the listener holds the long break that a tick of two seconds rotated into,
\* after it was first told of the last second of the work session
C18_Witness ==
    /\ op.name = "tick"
    /\ pc = "idle"
    /\ emits = 2
    /\ pre.mode = "WORK"
    /\ delivered # NoShot
    /\ delivered = Shot(mode, remaining, paused, work_sessions_done)
    /\ mode = "LONG_BREAK"

\* C20: whenever no call is in progress the accumulator is at least 0 and less
\* than 1, whatever non-negative deltas were passed; reset() leaves it 0.0, and
\* skip(), start() and toggle_pause() leave it as it was.
C20_AccumulatorInRange ==
    /\ [](pc # "loop" => (FGe(acc, FZero) /\ ~FGe(acc, FOne)))
    /\ [][/\ (pc = "idle" /\ op'.name = "reset") => acc' = FZero
          /\ (pc = "idle" /\ op'.name \in {"skip", "start", "toggle_pause"}) => acc' = acc]_vars

\* a tick of two seconds has returned with a fraction of a second left over
C20_Witness ==
    /\ op = Call("tick", FTwo)
    /\ pc = "idle"
    /\ ~pre.paused
    /\ acc # FZero
    /\ acc # pre.acc
    /\ remaining = pre.remaining - 2

====
